---- MODULE Spec2Model ----
(***************************************************************************)
(* The crypt overlay driver (drivers/crypt/driver.go): the metadata        *)
(* operations Get, List and Put over a remote directory, and the           *)
(* range-read adapter that Link builds over the remote link.               *)
(*                                                                         *)
(* Names are sequences of one-character strings.  The remote file's bytes  *)
(* are identified with their absolute offsets, so a reader is the interval *)
(* of offsets it still yields.                                             *)
(***************************************************************************)
EXTENDS Integers, Sequences, FiniteSets, TLC

VARIABLES
    d,          \* the driver's configuration: FileNameEnc, DirNameEnc
    remote,     \* the remote directory: the sequence of objects fs.List returns
    stored,     \* plaintext name -> plaintext size of the last successful Put (NotStored: none)
    last,       \* the last metadata operation, its inputs and its result
    link,       \* the state of Link: the remote link, the closers, the shared handle
    rd          \* per range read: its request, its reader and the bytes it got

vars == <<d, remote, stored, last, link, rd>>

(***************************************************************************)
(* Bounds of the model.                                                    *)
(***************************************************************************)
MaxList == 2

(***************************************************************************)
(* Name codec (rclone Cipher, as spec.md 4.1 describes it).                *)
(***************************************************************************)
PlainChars == {"a", "b", "."}

PlainNames == {<<"a">>, <<"b", ".", "a">>}

EncryptedSuffix == <<".", "b", "i", "n">>

Modes == {"off", "standard"}

\* standard mode: a bijection of the plaintext characters onto the cipher alphabet
SubstChar(c) ==
    CASE c = "a" -> "x"
      [] c = "b" -> "y"
      [] c = "." -> "z"
      [] OTHER   -> "?"

UnsubstChar(c) ==
    CASE c = "x" -> "a"
      [] c = "y" -> "b"
      [] c = "z" -> "."
      [] OTHER   -> "?"

CipherChars == {"x", "y", "z"}

encryptSegment(mode, s) ==
    IF mode = "off" THEN s ELSE [i \in 1..Len(s) |-> SubstChar(s[i])]

\* decoding fails on a name that is not in the image of the encoding
decryptSegment(mode, s) ==
    IF mode = "off"
    THEN [ok |-> TRUE, name |-> s]
    ELSE IF Len(s) = 0 \/ \E i \in 1..Len(s) : s[i] \notin CipherChars
         THEN [ok |-> FALSE, name |-> <<>>]
         ELSE [ok |-> TRUE, name |-> [i \in 1..Len(s) |-> UnsubstChar(s[i])]]

HasSuffix(s, suf) ==
    /\ Len(s) >= Len(suf)
    /\ SubSeq(s, Len(s) - Len(suf) + 1, Len(s)) = suf

EncryptFileName(s) == encryptSegment(d.FileNameEnc, s) \o EncryptedSuffix

DecryptFileName(s) ==
    IF ~HasSuffix(s, EncryptedSuffix) \/ Len(s) = Len(EncryptedSuffix)
    THEN [ok |-> FALSE, name |-> <<>>]
    ELSE decryptSegment(d.FileNameEnc, SubSeq(s, 1, Len(s) - Len(EncryptedSuffix)))

EncryptDirName(s) ==
    IF d.DirNameEnc THEN encryptSegment(d.FileNameEnc, s) ELSE s

DecryptDirName(s) ==
    IF d.DirNameEnc THEN decryptSegment(d.FileNameEnc, s) ELSE [ok |-> TRUE, name |-> s]

(***************************************************************************)
(* Size transform (spec.md 3 and 4.2; rclone's layout constants).          *)
(***************************************************************************)
fileHeaderSize == 32

blockHeaderSize == 16

blockDataSize == 65536

blockSize == blockHeaderSize + blockDataSize

EncryptedSize(size) ==
    LET blocks  == size \div blockDataSize
        residue == size % blockDataSize
    IN  fileHeaderSize + blocks * blockSize
          + (IF residue # 0 THEN blockHeaderSize + residue ELSE 0)

DecryptedSize(size) ==
    LET rest    == size - fileHeaderSize
        blocks  == rest \div blockSize
        residue == rest % blockSize
    IN  IF rest < 0 THEN [ok |-> FALSE, size |-> 0]
        ELSE IF residue = 0 THEN [ok |-> TRUE, size |-> blocks * blockDataSize]
        ELSE IF residue - blockHeaderSize <= 0 THEN [ok |-> FALSE, size |-> 0]
        ELSE [ok |-> TRUE, size |-> blocks * blockDataSize + residue - blockHeaderSize]

(***************************************************************************)
(* The remote backend: one directory of objects, each with the name and    *)
(* size the remote reports (RemoteObject of spec.md 3).                    *)
(***************************************************************************)
PlainSizes == {0, 1, blockDataSize, blockDataSize + 1}

\* sizes of the files the remote holds at the start: two that no plaintext
\* size encrypts to (shorter than the header; a block header with no data)
\* and a ciphertext size
ForeignSizes == {5, fileHeaderSize + 1}

\* names of the objects the remote holds at the start: ciphertext names of
\* both codecs and names that were never encrypted
RemoteNames ==
    UNION {{p, EncryptFileName(p), EncryptDirName(p)} : p \in PlainNames}

RemoteObjs ==
    [name : RemoteNames, size : ForeignSizes, isDir : {FALSE}, thumb : {FALSE}]
      \cup [name : RemoteNames, size : {EncryptedSize(1)}, isDir : {FALSE}, thumb : {TRUE}]
      \cup [name : RemoteNames, size : {0}, isDir : {TRUE}, thumb : {FALSE}]

DistinctNames(objs) ==
    \A i, j \in 1..Len(objs) : objs[i].name = objs[j].name => i = j

Listings ==
    {objs \in UNION {[1..n -> RemoteObjs] : n \in 0..MaxList} : DistinctNames(objs)}

NoObj == [name |-> <<>>, size |-> -1, isDir |-> FALSE, thumb |-> FALSE]

NoErr == [kind |-> "none", at |-> <<>>]

ErrObjectNotFound(q) == [kind |-> "notfound", at |-> q]

\* remote errors other than object-not-found
Faults(q) == {[kind |-> k, at |-> q] : k \in {"permission", "transport"}}

IsObjectNotFound(err) == err.kind = "notfound"

\* fs.Get on the remote name q: the first object of that name, or not found
Lookup(q) ==
    LET hits == {i \in 1..Len(remote) : remote[i].name = q}
    IN  IF hits = {}
        THEN [ok |-> FALSE, obj |-> NoObj, err |-> ErrObjectNotFound(q)]
        ELSE [ok |-> TRUE,
              obj |-> remote[CHOOSE i \in hits : \A j \in hits : i <= j],
              err |-> NoErr]

\* no query was issued
NoAnswer == [ok |-> FALSE, obj |-> NoObj, err |-> NoErr]

\* the answers the remote may give to fs.Get(q)
Answers(q) ==
    {Lookup(q)} \cup {[ok |-> FALSE, obj |-> NoObj, err |-> e] : e \in Faults(q)}

(***************************************************************************)
(* Path resolver (spec.md 4.5).  A logical path is the root or one segment *)
(* below it, with or without a trailing slash.                             *)
(***************************************************************************)
Root == [seg |-> <<>>, slash |-> TRUE]

Paths == {Root} \cup [seg : PlainNames, slash : BOOLEAN]

\* <<first try is a folder, a second try is legitimate>>
guessPath(path) ==
    IF path.slash THEN <<TRUE, FALSE>>
    ELSE IF \A i \in 1..Len(path.seg) : path.seg[i] # "." THEN <<TRUE, TRUE>>
    ELSE <<FALSE, TRUE>>

getPathForRemote(path, isFolder) ==
    IF isFolder \/ path.slash THEN EncryptDirName(path.seg) ELSE EncryptFileName(path.seg)

(***************************************************************************)
(* Crypt.List                                                              *)
(***************************************************************************)
\* ListStep without the size check: a file whose size does not decode is listed
ListStep_NoSizeCheck(result, obj) ==
    IF obj.isDir
    THEN LET name == DecryptDirName(obj.name)
         IN  IF ~name.ok THEN result
             ELSE Append(result, [name |-> name.name, size |-> 0,
                                  isDir |-> obj.isDir, thumb |-> FALSE])
    ELSE LET size == DecryptedSize(obj.size)
             name == DecryptFileName(obj.name)
         IN  IF ~name.ok THEN result
             ELSE Append(result, [name |-> name.name,
                                  size |-> IF size.ok THEN size.size ELSE obj.size,
                                  isDir |-> obj.isDir, thumb |-> obj.thumb])

\* one iteration of the loop over the remote objects
ListStep(result, obj) ==
    IF obj.isDir
    THEN LET name == DecryptDirName(obj.name)
         IN  IF ~name.ok THEN result
             ELSE Append(result, [name |-> name.name, size |-> 0,
                                  isDir |-> obj.isDir, thumb |-> FALSE])
    ELSE LET size == DecryptedSize(obj.size)
             name == DecryptFileName(obj.name)
         IN  IF ~size.ok THEN result
             ELSE IF ~name.ok THEN result
             ELSE Append(result, [name |-> name.name, size |-> size.size,
                                  isDir |-> obj.isDir, thumb |-> obj.thumb])

RECURSIVE ListLoop(_, _)
ListLoop(objs, result) ==
    IF objs = <<>> THEN result
    ELSE ListLoop(Tail(objs), ListStep(result, Head(objs)))

\* listing: what fs.List answered, [ok, objs, err]
ListResult(listing) ==
    IF ~listing.ok
    THEN [ok |-> FALSE, res |-> <<>>, err |-> listing.err]
    ELSE [ok |-> TRUE, res |-> ListLoop(listing.objs, <<>>), err |-> NoErr]

List ==
    \E listing \in {[ok |-> TRUE, objs |-> remote, err |-> NoErr]}
                     \cup {[ok |-> FALSE, objs |-> <<>>, err |-> e] : e \in Faults(<<>>)} :
        /\ last' = [op |-> "List", listing |-> listing] @@ ListResult(listing)
        /\ UNCHANGED <<d, remote, stored, link, rd>>

(***************************************************************************)
(* Crypt.Get                                                               *)
(***************************************************************************)
NoLogical == [path |-> Root, name |-> <<>>, size |-> -1, isDir |-> FALSE]

\* the object Get builds from the remote object it found
GetObject(path, remoteObj) ==
    IF ~remoteObj.isDir
    THEN LET size == DecryptedSize(remoteObj.size)
             name == DecryptFileName(remoteObj.name)
         IN  [path  |-> path,
              name  |-> IF name.ok THEN name.name ELSE remoteObj.name,
              size  |-> IF size.ok THEN size.size ELSE remoteObj.size,
              isDir |-> remoteObj.isDir]
    ELSE LET name == DecryptDirName(remoteObj.name)
         IN  [path  |-> path,
              name  |-> IF name.ok THEN name.name ELSE remoteObj.name,
              size  |-> 0,
              isDir |-> remoteObj.isDir]

\* GetResult returning the first query's error when both queries fail
GetResult_FirstError(path, a1, a2) ==
    LET q1 == [isFolder |-> guessPath(path)[1],
               at |-> getPathForRemote(path, guessPath(path)[1])]
        q2 == [isFolder |-> ~guessPath(path)[1],
               at |-> getPathForRemote(path, ~guessPath(path)[1])]
        failed(err, qs) == [ok |-> FALSE, err |-> err, queries |-> qs,
                            remoteObj |-> NoObj, obj |-> NoLogical]
        found(o, qs) == [ok |-> TRUE, err |-> NoErr, queries |-> qs,
                         remoteObj |-> o, obj |-> GetObject(path, o)]
    IN  IF a1.ok THEN found(a1.obj, <<q1>>)
        ELSE IF IsObjectNotFound(a1.err) /\ guessPath(path)[2]
        THEN IF a2.ok THEN found(a2.obj, <<q1, q2>>) ELSE failed(a1.err, <<q1, q2>>)
        ELSE failed(a1.err, <<q1>>)

\* GetResult retrying on every error of the first query
GetResult_RetryAnyError(path, a1, a2) ==
    LET q1 == [isFolder |-> guessPath(path)[1],
               at |-> getPathForRemote(path, guessPath(path)[1])]
        q2 == [isFolder |-> ~guessPath(path)[1],
               at |-> getPathForRemote(path, ~guessPath(path)[1])]
        failed(err, qs) == [ok |-> FALSE, err |-> err, queries |-> qs,
                            remoteObj |-> NoObj, obj |-> NoLogical]
        found(o, qs) == [ok |-> TRUE, err |-> NoErr, queries |-> qs,
                         remoteObj |-> o, obj |-> GetObject(path, o)]
    IN  IF a1.ok THEN found(a1.obj, <<q1>>)
        ELSE IF guessPath(path)[2]
        THEN IF a2.ok THEN found(a2.obj, <<q1, q2>>) ELSE failed(a2.err, <<q1, q2>>)
        ELSE failed(a1.err, <<q1>>)

\* GetResult resolving the root through the remote like any other path
GetResult_RootFromRemote(path, a1, a2) ==
    LET q1 == [isFolder |-> guessPath(path)[1],
               at |-> getPathForRemote(path, guessPath(path)[1])]
        q2 == [isFolder |-> ~guessPath(path)[1],
               at |-> getPathForRemote(path, ~guessPath(path)[1])]
        failed(err, qs) == [ok |-> FALSE, err |-> err, queries |-> qs,
                            remoteObj |-> NoObj, obj |-> NoLogical]
        found(o, qs) == [ok |-> TRUE, err |-> NoErr, queries |-> qs,
                         remoteObj |-> o, obj |-> GetObject(path, o)]
    IN  IF a1.ok THEN found(a1.obj, <<q1>>)
        ELSE IF IsObjectNotFound(a1.err) /\ guessPath(path)[2]
        THEN IF a2.ok THEN found(a2.obj, <<q1, q2>>) ELSE failed(a2.err, <<q1, q2>>)
        ELSE failed(a1.err, <<q1>>)

\* a1, a2: the remote's answers to the first and to the opposite-type query;
\* queries: the remote queries issued, in order
GetResult(path, a1, a2) ==
    IF path = Root
    THEN [ok |-> TRUE, err |-> NoErr, queries |-> <<>>, remoteObj |-> NoObj,
          obj |-> [path |-> Root, name |-> <<"R", "o", "o", "t">>, size |-> 0,
                   isDir |-> TRUE]]
    ELSE LET firstTryIsFolder == guessPath(path)[1]
             secondTry == guessPath(path)[2]
             q1 == [isFolder |-> firstTryIsFolder,
                    at |-> getPathForRemote(path, firstTryIsFolder)]
             q2 == [isFolder |-> ~firstTryIsFolder,
                    at |-> getPathForRemote(path, ~firstTryIsFolder)]
         IN  IF ~a1.ok
             THEN IF IsObjectNotFound(a1.err) /\ secondTry
                  THEN IF ~a2.ok
                       THEN [ok |-> FALSE, err |-> a2.err, queries |-> <<q1, q2>>,
                             remoteObj |-> NoObj, obj |-> NoLogical]
                       ELSE [ok |-> TRUE, err |-> NoErr, queries |-> <<q1, q2>>,
                             remoteObj |-> a2.obj, obj |-> GetObject(path, a2.obj)]
                  ELSE [ok |-> FALSE, err |-> a1.err, queries |-> <<q1>>,
                        remoteObj |-> NoObj, obj |-> NoLogical]
             ELSE [ok |-> TRUE, err |-> NoErr, queries |-> <<q1>>,
                   remoteObj |-> a1.obj, obj |-> GetObject(path, a1.obj)]

\* the remote answers the opposite-type query only when it is issued
Get ==
    \E path \in Paths :
        \E a1 \in Answers(getPathForRemote(path, guessPath(path)[1])) :
            \E a2 \in IF Len(GetResult(path, a1, NoAnswer).queries) = 2
                      THEN Answers(getPathForRemote(path, ~guessPath(path)[1]))
                      ELSE {NoAnswer} :
                /\ last' = [op |-> "Get", path |-> path, a1 |-> a1, a2 |-> a2]
                              @@ GetResult(path, a1, a2)
                /\ UNCHANGED <<d, remote, stored, link, rd>>

(***************************************************************************)
(* Crypt.Put                                                               *)
(***************************************************************************)
NotStored == -1

\* streamOut declaring the plaintext size
streamOut_PlainSize(name, size) ==
    [name  |-> EncryptFileName(name),
     size  |-> size,
     isDir |-> FALSE,
     thumb |-> FALSE]

\* the object metadata handed to the remote with the encrypted stream
streamOut(name, size) ==
    [name  |-> EncryptFileName(name),
     size  |-> EncryptedSize(size),
     isDir |-> FALSE,
     thumb |-> FALSE]

\* op.Put on the remote: the object replaces the one of its name, or is added
RemotePut(objs, obj) ==
    IF \E i \in 1..Len(objs) : objs[i].name = obj.name
    THEN [i \in 1..Len(objs) |-> IF objs[i].name = obj.name THEN obj ELSE objs[i]]
    ELSE Append(objs, obj)

\* fail: "path" (the remote path cannot be resolved), "encrypt" (EncryptData
\* fails), "remote" (op.Put fails) or "none"
Put ==
    \E name \in PlainNames, size \in PlainSizes,
       fail \in {"none", "path", "encrypt", "remote"} :
        LET out == streamOut(name, size)
        IN  /\ Len(remote) <= MaxList
            /\ last' = [op |-> "Put", name |-> name, size |-> size, ok |-> fail = "none",
                        sent |-> IF fail \in {"none", "remote"} THEN <<out>> ELSE <<>>]
            /\ remote' = IF fail = "none" THEN RemotePut(remote, out) ELSE remote
            /\ stored' = IF fail = "none" THEN [stored EXCEPT ![name] = size] ELSE stored
            /\ UNCHANGED <<d, link, rd>>

(***************************************************************************)
(* Crypt.Link and the range-read adapter (rangeReaderFunc).                *)
(*                                                                         *)
(* An interval [lo, hi) stands for the remote file's bytes at the absolute *)
(* offsets lo .. hi-1.                                                     *)
(***************************************************************************)
MaxCalls == 2

Readers == {1, 2}

\* sizes of the remote (ciphertext) file
Sizes == {1500, 2000}

\* the (offset, length) the cipher asks the adapter for; length -1: to the end
Offsets == {0, 1000}

Lengths == {-1, 500, 1000}

\* how many bytes one Read asks for
ReadLens == {500, 2000}

\* what the remote link exposes: a native range reader, a seekable stream, a URL
Caps == [rr : BOOLEAN, rsc : BOOLEAN, url : BOOLEAN]

StatusOK == 200

StatusPartialContent == 206

StatusNoContent == 204

Min(a, b) == IF a <= b THEN a ELSE b

NoReader ==
    [kind |-> "none", src |-> "none", lo |-> 0, hi |-> 0, valid |-> FALSE,
     via |-> "none", status |-> 0]

\* the adapter returns (nil, err)
Failed(status) == [NoReader EXCEPT !.kind = "err", !.status = status]

\* the adapter returns (nil, errs.NotSupport): none of its branches was taken
NotSupport == [NoReader EXCEPT !.kind = "err", !.via = "notsupport"]

\* the adapter dereferences a nil response
Panicked == [NoReader EXCEPT !.kind = "panic"]

\* the adapter returns a reader of its own bytes [lo, hi), or of the shared handle
OwnReader(lo, hi, valid, via, status) ==
    [kind |-> "reader", src |-> "own", lo |-> lo, hi |-> hi, valid |-> valid,
     via |-> via, status |-> status]

HandleReader ==
    [kind |-> "reader", src |-> "handle", lo |-> 0, hi |-> 0, valid |-> TRUE,
     via |-> "nopcloser", status |-> 0]

\* the bytes the remote serves for the range (start, length) of a file of `size` bytes
RemoteRange(start, length, size) ==
    [lo |-> Min(start, size),
     hi |-> IF length < 0 THEN size ELSE Min(start + length, size)]

\* net.GetRangedHttpReader: discard `offset` bytes of the body, then truncate at `length`
GetRangedHttpReader(body, offset, length) ==
    LET lo == Min(body.lo + offset, body.hi)
    IN  [lo |-> lo, hi |-> IF length < 0 THEN body.hi ELSE Min(lo + length, body.hi)]

\* what the far end may do with one adapter call, by the branch the call takes:
\* the native reader or the seek succeeds or fails; the HTTP request fails
\* (with or without a response), or is answered 206, 200 (the body may break
\* while it is read) or another status
Outcomes(caps) ==
    IF caps.rr \/ caps.rsc THEN {"ok", "fail"}
    ELSE {"206", "200", "200broken", "204", "fail", "failnil"}

\* ForwardLength reading to the end only for a range that goes past the end
ForwardLength_PastEndOnly(underlyingOffset, underlyingLength, remoteFileSize) ==
    IF underlyingLength >= 0 /\ underlyingOffset + underlyingLength > remoteFileSize
    THEN -1
    ELSE underlyingLength

\* the length forwarded to the remote
ForwardLength(underlyingOffset, underlyingLength, remoteFileSize) ==
    IF underlyingLength >= 0 /\ underlyingOffset + underlyingLength >= remoteFileSize
    THEN -1
    ELSE underlyingLength

\* the native range reader branch: [res, seek, add]; seek: the offset the shared
\* handle is moved to (-1: not moved); add: the closers added to remoteClosers,
\* "rrc" for remoteLink.RangeReadCloser.Closers, "rsc" for the shared handle
NativeBranch(offset, length, size, out) ==
    [res  |-> IF out = "fail" THEN Failed(0)
              ELSE LET r == RemoteRange(offset, length, size)
                   IN  OwnReader(r.lo, r.hi, TRUE, "rangereader", 0),
     seek |-> -1,
     add  |-> <<"rrc">>,
     branch |-> "native"]

\* SeekBranch returning the shared handle without seeking it
SeekBranch_NoSeek(offset, out) ==
    IF out = "fail"
    THEN [res |-> Failed(0), seek |-> -1, add |-> <<>>, branch |-> "seek"]
    ELSE [res |-> HandleReader, seek |-> -1, add |-> <<>>, branch |-> "seek"]

\* the seekable stream branch
SeekBranch(offset, out) ==
    IF out = "fail"
    THEN [res |-> Failed(0), seek |-> -1, add |-> <<>>, branch |-> "seek"]
    ELSE [res |-> HandleReader, seek |-> offset, add |-> <<>>, branch |-> "seek"]

\* UrlBranch returning every response body as it is, a full 200 body too
UrlBranch_BodyAsIs(offset, length, size, out) ==
    LET status == CASE out = "206" -> StatusPartialContent
                    [] out \in {"200", "200broken"} -> StatusOK
                    [] out = "204" -> StatusNoContent
                    [] OTHER -> 0
        body == CASE out = "206" -> RemoteRange(offset, length, size)
                  [] out \in {"200", "200broken"} -> [lo |-> 0, hi |-> size]
                  [] OTHER -> [lo |-> 0, hi |-> 0]
        res ==
            IF out = "fail" THEN Failed(0)
            ELSE IF out = "failnil" THEN Panicked
            ELSE OwnReader(body.lo, body.hi, out \in {"206", "200", "200broken"},
                           "body", status)
    IN  [res |-> res, seek |-> -1, add |-> <<>>, branch |-> "url"]

\* the URL branch
UrlBranch(offset, length, size, out) ==
    LET status == CASE out = "206" -> StatusPartialContent
                    [] out \in {"200", "200broken"} -> StatusOK
                    [] out = "204" -> StatusNoContent
                    [] OTHER -> 0
        \* the response body: the range, the whole file, or no ciphertext at all
        body == CASE out = "206" -> RemoteRange(offset, length, size)
                  [] out \in {"200", "200broken"} -> [lo |-> 0, hi |-> size]
                  [] OTHER -> [lo |-> 0, hi |-> 0]
        isCipher == out \in {"206", "200", "200broken"}
        res ==
            IF out = "fail" THEN Failed(0)
            ELSE IF out = "failnil" THEN Panicked
            ELSE IF (offset = 0 /\ length = -1) \/ status = StatusPartialContent
            THEN OwnReader(body.lo, body.hi, isCipher, "body", status)
            ELSE IF status = StatusOK
            THEN IF out = "200broken" THEN Failed(status)
                 ELSE LET r == GetRangedHttpReader(body, offset, length)
                      IN  OwnReader(r.lo, r.hi, TRUE, "ranged", status)
            ELSE OwnReader(body.lo, body.hi, isCipher, "body", status)
    IN  [res |-> res, seek |-> -1, add |-> <<>>, branch |-> "url"]

rangeReaderFunc(caps, size, underlyingOffset, underlyingLength, out) ==
    LET length == ForwardLength(underlyingOffset, underlyingLength, size)
    IN  IF caps.rr THEN NativeBranch(underlyingOffset, length, size, out)
        ELSE IF caps.rsc THEN SeekBranch(underlyingOffset, out)
        ELSE IF caps.url THEN UrlBranch(underlyingOffset, length, size, out)
        ELSE [res |-> NotSupport, seek |-> -1, add |-> <<>>, branch |-> "none"]

\* Link has not been called
NoLink == [state |-> "none"]

IdleReader ==
    [pc |-> "idle", off |-> 0, len |-> 0, fwd |-> 0, out |-> "none",
     branch |-> "none", res |-> NoReader, next |-> 0, got |-> <<>>, eof |-> FALSE]

\* LinkResult without the check of what the remote link exposes
LinkResult_NoCapabilityCheck(caps, size, fail) ==
    IF fail # "none"
    THEN [state |-> "err", fail |-> fail, caps |-> caps, err |-> fail]
    ELSE [state |-> "ok", caps |-> caps, size |-> size, calls |-> 0,
          added |-> <<>>, pos |-> 0, handleCloses |-> 0,
          remoteCloses |-> 0, closed |-> FALSE]

\* what Link returns: an error ("path": the remote path cannot be resolved;
\* "remote": op.Link fails; "capability": the remote link exposes nothing the
\* adapter can read through) or the result link with its empty remoteClosers
LinkResult(caps, size, fail) ==
    IF fail # "none"
    THEN [state |-> "err", fail |-> fail, caps |-> caps, err |-> fail]
    ELSE IF ~caps.rr /\ ~caps.rsc /\ ~caps.url
    THEN [state |-> "err", fail |-> fail, caps |-> caps, err |-> "capability"]
    ELSE [state |-> "ok", caps |-> caps, size |-> size, calls |-> 0,
          added |-> <<>>, pos |-> 0, handleCloses |-> 0,
          remoteCloses |-> 0, closed |-> FALSE]

\* Link: fail is "path" (the remote path cannot be resolved), "remote" (op.Link
\* fails) or "none"
Link ==
    /\ link.state = "none"
    /\ \E caps \in Caps, size \in Sizes, fail \in {"none", "path", "remote"} :
          link' = LinkResult(caps, size, fail)
    /\ rd' = [p \in Readers |-> IdleReader]
    /\ UNCHANGED <<d, remote, stored, last>>

\* one call of the adapter by range read p
Call(p) ==
    /\ link.state = "ok"
    /\ ~link.closed
    /\ link.calls < MaxCalls
    /\ rd[p].pc = "idle"
    /\ \E off \in Offsets, len \in Lengths, out \in Outcomes(link.caps) :
          LET r == rangeReaderFunc(link.caps, link.size, off, len, out)
          IN  /\ rd' = [rd EXCEPT ![p] =
                          [pc   |-> IF r.res.kind = "reader" THEN "open" ELSE "failed",
                           off  |-> off,
                           len  |-> len,
                           fwd  |-> ForwardLength(off, len, link.size),
                           out  |-> out,
                           branch |-> r.branch,
                           res  |-> r.res,
                           next |-> r.res.lo,
                           got  |-> <<>>,
                           eof  |-> FALSE]]
              /\ link' = [link EXCEPT !.calls = @ + 1,
                                      !.added = @ \o r.add,
                                      !.pos = IF r.seek >= 0 THEN r.seek ELSE @]
    /\ UNCHANGED <<d, remote, stored, last>>

\* the bytes read are added to those the reader has yielded so far
Extend(got, lo, hi) ==
    IF got # <<>> /\ got[Len(got)].hi = lo
    THEN [got EXCEPT ![Len(got)].hi = hi]
    ELSE Append(got, [lo |-> lo, hi |-> hi])

\* range read p reads up to n bytes from the reader its call returned
Read(p) ==
    /\ link.state = "ok"
    /\ rd[p].pc = "open"
    /\ ~rd[p].eof
    /\ \E n \in ReadLens :
          LET from  == IF rd[p].res.src = "handle" THEN link.pos ELSE rd[p].next
              limit == IF rd[p].res.src = "handle" THEN link.size ELSE rd[p].res.hi
              k     == Min(n, limit - from)
          IN  /\ rd' = [rd EXCEPT ![p].got = IF k > 0 THEN Extend(@, from, from + k) ELSE @,
                                  ![p].next = IF rd[p].res.src = "own" THEN from + k ELSE @,
                                  ![p].eof = (k <= 0)]
              /\ link' = [link EXCEPT !.pos = IF rd[p].res.src = "handle" /\ k > 0
                                              THEN from + k ELSE @]
    /\ UNCHANGED <<d, remote, stored, last>>

\* range read p closes the reader its call returned (io.NopCloser: nothing is
\* closed) or gives up after a failed call
CloseReader(p) ==
    /\ link.state = "ok"
    /\ rd[p].pc \in {"open", "failed"}
    /\ rd' = [rd EXCEPT ![p] = IdleReader]
    /\ UNCHANGED <<d, remote, stored, last, link>>

\* how many times closer c was added
Count(added, c) == Cardinality({i \in 1..Len(added) : added[i] = c})

\* the caller closes the result link's closers (remoteClosers): every closer
\* added is closed
CloseLink ==
    /\ link.state = "ok"
    /\ ~link.closed
    /\ \A p \in Readers : rd[p].pc = "idle"
    /\ link' = [link EXCEPT !.closed = TRUE,
                            !.remoteCloses = @ + Count(link.added, "rrc"),
                            !.handleCloses = @ + Count(link.added, "rsc")]
    /\ UNCHANGED <<d, remote, stored, last, rd>>

InitLink ==
    /\ d = [FileNameEnc |-> "standard", DirNameEnc |-> TRUE]
    /\ remote = <<>>
    /\ stored = [n \in PlainNames |-> NotStored]
    /\ last = [op |-> "none"]
    /\ link = NoLink
    /\ rd = [p \in Readers |-> IdleReader]

\* range reads issued concurrently through one result of Link
NextLink ==
    \/ Link
    \/ CloseLink
    \/ \E p \in Readers : Call(p) \/ Read(p) \/ CloseReader(p)

SpecLink == InitLink /\ [][NextLink]_vars

\* a single in-flight range read
NextSeq ==
    \/ Link
    \/ CloseLink
    \/ Call(1) \/ Read(1) \/ CloseReader(1)

SpecSeq == InitLink /\ [][NextSeq]_vars

(***************************************************************************)
(* Get and List over every remote directory of up to MaxList objects.      *)
(***************************************************************************)
Configs == [FileNameEnc : Modes, DirNameEnc : BOOLEAN]

Init ==
    /\ d \in Configs
    /\ remote \in Listings
    /\ stored = [n \in PlainNames |-> NotStored]
    /\ last = [op |-> "none"]
    /\ link = NoLink
    /\ rd = [p \in Readers |-> IdleReader]

Next == Get \/ List

Spec == Init /\ [][Next]_vars

(***************************************************************************)
(* Put, List and Get over a remote directory that starts with objects of   *)
(* the first plaintext name: an encrypted file, a file too short to be     *)
(* one, and a directory.                                                   *)
(***************************************************************************)
PutObjs ==
    {[name |-> EncryptFileName(<<"a">>), size |-> EncryptedSize(1), isDir |-> FALSE,
      thumb |-> TRUE],
     [name |-> EncryptFileName(<<"a">>), size |-> 5, isDir |-> FALSE, thumb |-> FALSE],
     [name |-> EncryptDirName(<<"a">>), size |-> 0, isDir |-> TRUE, thumb |-> FALSE]}

InitPut ==
    /\ d \in Configs
    /\ remote \in {objs \in UNION {[1..n -> PutObjs] : n \in 0..MaxList} :
                     DistinctNames(objs)}
    /\ stored = [n \in PlainNames |-> NotStored]
    /\ last = [op |-> "none"]
    /\ link = NoLink
    /\ rd = [p \in Readers |-> IdleReader]

NextPut == Put \/ List \/ Get

SpecPut == InitPut /\ [][NextPut]_vars

(***************************************************************************)
(* Crypt.Init.  In this specification d is the whole driver: the stored    *)
(* configuration (Addition), the cipher and the remote storage.            *)
(***************************************************************************)
obfuscatedPrefix == "___Obfuscated___"

\* a credential is a sequence of characters, led by the prefix once obfuscated
Credentials == {<<"p">>, <<obfuscatedPrefix, "#", "p">>}

\* obscure.Obscure: the text in its obscured form
Obscure(str) == <<"#">> \o str

HasObfuscatedPrefix(str) == Len(str) >= 1 /\ str[1] = obfuscatedPrefix

CutObfuscatedPrefix(str) == IF HasObfuscatedPrefix(str) THEN Tail(str) ELSE str

\* updateObfusParm: [ok, str]
updateObfusParm(str, obscureFails) ==
    IF ~HasObfuscatedPrefix(str)
    THEN IF obscureFails THEN [ok |-> FALSE, str |-> str]
         ELSE [ok |-> TRUE, str |-> <<obfuscatedPrefix>> \o Obscure(str)]
    ELSE [ok |-> TRUE, str |-> str]

\* the characters [A-Za-z0-9-_]
SuffixChars ==
    {"a", "b", "c", "d", "e", "f", "g", "h", "i", "j", "k", "l", "m",
     "n", "o", "p", "q", "r", "s", "t", "u", "v", "w", "x", "y", "z",
     "A", "B", "C", "D", "E", "F", "G", "H", "I", "J", "K", "L", "M",
     "N", "O", "P", "Q", "R", "S", "T", "U", "V", "W", "X", "Y", "Z",
     "0", "1", "2", "3", "4", "5", "6", "7", "8", "9", "-", "_"}

\* regexp ^[.][A-Za-z0-9-_]{2,}$
isCryptExt(s) ==
    /\ Len(s) >= 3
    /\ s[1] = "."
    /\ \A i \in 2..Len(s) : s[i] \in SuffixChars

\* the suffixes a configuration may hold: two that match, and one too short,
\* one without the dot, one with a character outside the class, the empty one
Suffixes ==
    {<<".", "b", "i", "n">>, <<".", "-", "_">>, <<".", "b">>, <<"b", "i", "n">>,
     <<".", "b", "/">>, <<>>}

\* the name encryption modes a configuration may hold; rclone knows no "bogus"
ConfigModes == Modes \cup {"bogus"}

Additions ==
    [Password : Credentials, Salt : Credentials, EncryptedSuffix : Suffixes,
     FileNameEnc : ConfigModes, DirNameEnc : BOOLEAN, RemotePath : {"/remote"}]

NoCipher == [made |-> FALSE]

NoStorage == [found |-> FALSE]

\* rcCrypt.NewCipher(config): [ok, cipher]
NewCipher(config, fails) ==
    IF fails \/ config.filename_encryption \notin Modes
    THEN [ok |-> FALSE, cipher |-> NoCipher]
    ELSE [ok |-> TRUE, cipher |-> [made |-> TRUE, config |-> config]]

\* Init returning after a malformed suffix only once the storage is saved and
\* the remote resolved
InitResult_SuffixCheckedLate(drv, fail) ==
    LET pw   == updateObfusParm(drv.Password, fail = "password")
        d1   == [drv EXCEPT !.Password = pw.str]
        salt == updateObfusParm(d1.Salt, fail = "salt")
        d2   == [d1 EXCEPT !.Salt = salt.str]
        d3   == [d2 EXCEPT !.remoteStorage = [found |-> TRUE, path |-> d2.RemotePath]]
        c    == NewCipher([password   |-> CutObfuscatedPrefix(d3.Password),
                           password2  |-> CutObfuscatedPrefix(d3.Salt),
                           filename_encryption |-> d3.FileNameEnc,
                           directory_name_encryption |-> d3.DirNameEnc,
                           filename_encoding |-> "base32",
                           suffix     |-> d3.EncryptedSuffix,
                           pass_bad_blocks |-> ""], fail = "cipher")
    IN  IF ~pw.ok THEN [d |-> drv, err |-> "password", saved |-> FALSE]
        ELSE IF ~salt.ok THEN [d |-> d1, err |-> "salt", saved |-> FALSE]
        ELSE IF fail = "storage" THEN [d |-> d2, err |-> "storage", saved |-> TRUE]
        ELSE IF ~isCryptExt(d2.EncryptedSuffix)
        THEN [d |-> d3, err |-> "suffix", saved |-> TRUE]
        ELSE IF ~c.ok THEN [d |-> d3, err |-> "cipher", saved |-> TRUE]
        ELSE [d |-> [d3 EXCEPT !.cipher = c.cipher], err |-> "none", saved |-> TRUE]

\* Init on the driver drv: [d, err, saved]; d: the driver afterwards; err: the
\* error returned ("none": nil); saved: op.MustSaveDriverStorage was called.
\* fail: the step of the environment that fails if it is reached ("password",
\* "salt": obscure.Obscure; "storage": fs.GetStorage; "cipher": NewCipher)
InitResult(drv, fail) ==
    LET pw   == updateObfusParm(drv.Password, fail = "password")
        d1   == [drv EXCEPT !.Password = pw.str]
        salt == updateObfusParm(d1.Salt, fail = "salt")
        d2   == [d1 EXCEPT !.Salt = salt.str]
        d3   == [d2 EXCEPT !.remoteStorage = [found |-> TRUE, path |-> d2.RemotePath]]
        c    == NewCipher([password   |-> CutObfuscatedPrefix(d3.Password),
                           password2  |-> CutObfuscatedPrefix(d3.Salt),
                           filename_encryption |-> d3.FileNameEnc,
                           directory_name_encryption |-> d3.DirNameEnc,
                           filename_encoding |-> "base32",
                           suffix     |-> d3.EncryptedSuffix,
                           pass_bad_blocks |-> ""], fail = "cipher")
    IN  IF ~pw.ok THEN [d |-> drv, err |-> "password", saved |-> FALSE]
        ELSE IF ~salt.ok THEN [d |-> d1, err |-> "salt", saved |-> FALSE]
        ELSE IF ~isCryptExt(d2.EncryptedSuffix)
        THEN [d |-> d2, err |-> "suffix", saved |-> FALSE]
        ELSE IF fail = "storage" THEN [d |-> d2, err |-> "storage", saved |-> TRUE]
        ELSE IF ~c.ok THEN [d |-> d3, err |-> "cipher", saved |-> TRUE]
        ELSE [d |-> [d3 EXCEPT !.cipher = c.cipher], err |-> "none", saved |-> TRUE]

InitFailures == {"none", "password", "salt", "storage", "cipher"}

CryptInit ==
    \E fail \in InitFailures :
        LET r == InitResult(d, fail)
        IN  /\ d' = r.d
            /\ last' = [op |-> "Init", fail |-> fail, err |-> r.err, saved |-> r.saved,
                        before |-> d]
            /\ UNCHANGED <<remote, stored, link, rd>>

\* the stored configuration is edited; the driver keeps its cipher and its
\* remote storage until the next Init
Configure ==
    \E add \in Additions :
        /\ d' = [cipher |-> d.cipher, remoteStorage |-> d.remoteStorage] @@ add
        /\ last' = [op |-> "Configure"]
        /\ UNCHANGED <<remote, stored, link, rd>>

InitDriver ==
    /\ d \in {[cipher |-> NoCipher, remoteStorage |-> NoStorage] @@ add : add \in Additions}
    /\ remote = <<>>
    /\ stored = [n \in PlainNames |-> NotStored]
    /\ last = [op |-> "none"]
    /\ link = NoLink
    /\ rd = [p \in Readers |-> IdleReader]

NextInit == CryptInit \/ Configure

SpecInit == InitDriver /\ [][NextInit]_vars

(***************************************************************************)
(* MakeDir, Move, Rename, Copy, Remove.  A remote path is the sequence of  *)
(* its segments below the remote root.                                     *)
(***************************************************************************)
\* getActualPathForRemote: [ok, path]; fails: op.GetStorageAndActualPath fails
getActualPathForRemote(path, isFolder, fails) ==
    IF fails THEN [ok |-> FALSE, path |-> <<>>]
    ELSE [ok |-> TRUE,
          path |-> IF path.seg = <<>> THEN <<>> ELSE <<getPathForRemote(path, isFolder)>>]

\* "failed to convert path to remote path"
ErrConvertPath == [kind |-> "path", at |-> <<>>]

\* the objects a caller hands over: found by Get or List, never the root
SrcObjs == [path : [seg : PlainNames, slash : {FALSE}], isDir : BOOLEAN]

\* the directories a caller hands over
DstDirs == [path : {Root} \cup [seg : PlainNames, slash : {FALSE}], isDir : {TRUE}]

NoCall == [sent |-> <<>>, err |-> ErrConvertPath]

RemoteCall(kind, src, dst) ==
    [sent |-> <<[kind |-> kind, src |-> src, dst |-> dst]>>, err |-> NoErr]

\* each handler up to its remote call: [sent, err]; sent: the remote calls
\* made, err: the error of the handler itself
MakeDirResult(parentDir, dirName, fail) ==
    LET dstDirActualPath == getActualPathForRemote(parentDir.path, TRUE, fail = "src")
    IN  IF ~dstDirActualPath.ok THEN NoCall
        ELSE RemoteCall("MakeDir",
                        Append(dstDirActualPath.path, EncryptDirName(dirName)), <<>>)

MoveResult(srcObj, dstDir, fail) ==
    LET srcRemoteActualPath == getActualPathForRemote(srcObj.path, srcObj.isDir, fail = "src")
        dstRemoteActualPath == getActualPathForRemote(dstDir.path, dstDir.isDir, fail = "dst")
    IN  IF ~srcRemoteActualPath.ok THEN NoCall
        ELSE IF ~dstRemoteActualPath.ok THEN NoCall
        ELSE RemoteCall("Move", srcRemoteActualPath.path, dstRemoteActualPath.path)

\* Rename encrypting the new name as a file name whatever the source is
RenameResult_FileCodec(srcObj, newName, fail) ==
    LET remoteActualPath == getActualPathForRemote(srcObj.path, srcObj.isDir, fail = "src")
    IN  IF ~remoteActualPath.ok THEN NoCall
        ELSE RemoteCall("Rename", remoteActualPath.path, EncryptFileName(newName))

RenameResult(srcObj, newName, fail) ==
    LET remoteActualPath == getActualPathForRemote(srcObj.path, srcObj.isDir, fail = "src")
        newEncryptedName == IF srcObj.isDir THEN EncryptDirName(newName)
                            ELSE EncryptFileName(newName)
    IN  IF ~remoteActualPath.ok THEN NoCall
        ELSE RemoteCall("Rename", remoteActualPath.path, newEncryptedName)

CopyResult(srcObj, dstDir, fail) ==
    LET srcRemoteActualPath == getActualPathForRemote(srcObj.path, srcObj.isDir, fail = "src")
        dstRemoteActualPath == getActualPathForRemote(dstDir.path, dstDir.isDir, fail = "dst")
    IN  IF ~srcRemoteActualPath.ok THEN NoCall
        ELSE IF ~dstRemoteActualPath.ok THEN NoCall
        ELSE RemoteCall("Copy", srcRemoteActualPath.path, dstRemoteActualPath.path)

RemoveResult(obj, fail) ==
    LET remoteActualPath == getActualPathForRemote(obj.path, obj.isDir, fail = "src")
    IN  IF ~remoteActualPath.ok THEN NoCall
        ELSE RemoteCall("Remove", remoteActualPath.path, <<>>)

\* the remote backend carrying out a call on its root directory objs: [objs, err]
RemoteDo(objs, call) ==
    LET has(n)  == \E i \in 1..Len(objs) : objs[i].name = n
        keep(o) == o.name # call.src[1]
        gone    == [objs |-> objs, err |-> ErrObjectNotFound(call.src[1])]
        same    == [objs |-> objs, err |-> NoErr]
    IN  CASE call.kind = "MakeDir" ->
               IF Len(call.src) = 1 /\ ~has(call.src[1])
               THEN [objs |-> Append(objs, [name |-> call.src[1], size |-> 0,
                                            isDir |-> TRUE, thumb |-> FALSE]),
                     err |-> NoErr]
               ELSE same
          [] call.kind = "Remove" ->
               IF ~has(call.src[1]) THEN gone
               ELSE [objs |-> SelectSeq(objs, keep), err |-> NoErr]
          [] call.kind = "Rename" ->
               IF ~has(call.src[1]) THEN gone
               ELSE IF has(call.dst)
               THEN [objs |-> objs, err |-> [kind |-> "exists", at |-> call.dst]]
               ELSE [objs |-> [i \in 1..Len(objs) |->
                                  IF objs[i].name = call.src[1]
                                  THEN [objs[i] EXCEPT !.name = call.dst] ELSE objs[i]],
                     err |-> NoErr]
          [] call.kind = "Move" ->
               IF ~has(call.src[1]) THEN gone
               ELSE IF call.dst = <<>> THEN same
               ELSE IF ~has(call.dst[1])
               THEN [objs |-> objs, err |-> ErrObjectNotFound(call.dst[1])]
               ELSE [objs |-> SelectSeq(objs, keep), err |-> NoErr]
          [] call.kind = "Copy" ->
               IF ~has(call.src[1]) THEN gone
               ELSE IF call.dst # <<>> /\ ~has(call.dst[1])
               THEN [objs |-> objs, err |-> ErrObjectNotFound(call.dst[1])]
               ELSE same

\* the handler returns what its remote call returns: the remote carries the
\* call out, or fails with a fault of its own
Delegate(op, args, fail, r) ==
    IF r.sent = <<>>
    THEN /\ remote' = remote
         /\ last' = [op |-> op, args |-> args, fail |-> fail, sent |-> r.sent,
                     answer |-> NoErr, err |-> r.err]
    ELSE \E fault \in {NoErr} \cup Faults(r.sent[1].src) :
            LET done == IF fault = NoErr THEN RemoteDo(remote, r.sent[1])
                        ELSE [objs |-> remote, err |-> fault]
            IN  /\ remote' = done.objs
                /\ last' = [op |-> op, args |-> args, fail |-> fail, sent |-> r.sent,
                            answer |-> done.err, err |-> done.err]

MakeDir ==
    \E parentDir \in DstDirs, dirName \in PlainNames, fail \in {"none", "src"} :
        /\ Delegate("MakeDir", <<parentDir, dirName>>, fail,
                    MakeDirResult(parentDir, dirName, fail))
        /\ UNCHANGED <<d, stored, link, rd>>

Move ==
    \E srcObj \in SrcObjs, dstDir \in DstDirs, fail \in {"none", "src", "dst"} :
        /\ Delegate("Move", <<srcObj, dstDir>>, fail, MoveResult(srcObj, dstDir, fail))
        /\ UNCHANGED <<d, stored, link, rd>>

Rename ==
    \E srcObj \in SrcObjs, newName \in PlainNames, fail \in {"none", "src"} :
        /\ Delegate("Rename", <<srcObj, newName>>, fail,
                    RenameResult(srcObj, newName, fail))
        /\ UNCHANGED <<d, stored, link, rd>>

Copy ==
    \E srcObj \in SrcObjs, dstDir \in DstDirs, fail \in {"none", "src", "dst"} :
        /\ Delegate("Copy", <<srcObj, dstDir>>, fail, CopyResult(srcObj, dstDir, fail))
        /\ UNCHANGED <<d, stored, link, rd>>

Remove ==
    \E obj \in SrcObjs, fail \in {"none", "src"} :
        /\ Delegate("Remove", <<obj>>, fail, RemoveResult(obj, fail))
        /\ UNCHANGED <<d, stored, link, rd>>

\* the remote starts with an encrypted file and a directory
InitOps ==
    /\ d \in Configs
    /\ remote = <<streamOut(<<"a">>, 1),
                  [name |-> EncryptDirName(<<"b", ".", "a">>), size |-> 0,
                   isDir |-> TRUE, thumb |-> FALSE]>>
    /\ stored = [n \in PlainNames |-> NotStored]
    /\ last = [op |-> "none"]
    /\ link = NoLink
    /\ rd = [p \in Readers |-> IdleReader]

NextOps == MakeDir \/ Move \/ Rename \/ Copy \/ Remove

SpecOps == InitOps /\ [][NextOps]_vars

(***************************************************************************)
(* Properties of the range-read adapter.                                   *)
(***************************************************************************)
\* range read p holds a reader of remote ciphertext
HoldsCiphertext(p) ==
    /\ link.state = "ok"
    /\ rd[p].pc = "open"
    /\ rd[p].res.valid

\* the end of the range p asked for, within the remote file
WantedEnd(p) ==
    IF rd[p].len < 0 THEN link.size ELSE Min(rd[p].off + rd[p].len, link.size)

\* what p has read so far is a run of bytes that begins at its offset
StartsAtOffset(p) ==
    \/ rd[p].got = <<>>
    \/ /\ Len(rd[p].got) = 1
       /\ rd[p].got[1].lo = rd[p].off
       /\ rd[p].got[1].hi <= link.size

\* C4: in each branch (native range reader, seekable stream, URL answered 206,
\* URL answered 200) the reader the adapter returns yields the remote bytes
\* from exactly the requested offset on, and by its end at least the requested
\* length of them when the remote has that many (to the end for length -1).
C4_ReaderAlignedAndComplete ==
    HoldsCiphertext(1) =>
        /\ StartsAtOffset(1)
        /\ (rd[1].eof /\ WantedEnd(1) > rd[1].off) =>
              /\ rd[1].got # <<>>
              /\ rd[1].got[1].hi >= WantedEnd(1)

\* the seekable branch read to its end: 500 bytes asked at 1000, 1000 yielded
C4_Witness ==
    /\ HoldsCiphertext(1)
    /\ rd[1].res.src = "handle"
    /\ rd[1].off = 1000
    /\ rd[1].len = 500
    /\ link.size = 2000
    /\ rd[1].eof
    /\ rd[1].got = <<[lo |-> 1000, hi |-> 2000]>>

\* range read p called the adapter on a link that exposes only a URL
UrlCall(p) ==
    /\ link.state = "ok"
    /\ ~link.caps.rr /\ ~link.caps.rsc /\ link.caps.url
    /\ rd[p].pc # "idle"

\* C5: on a URL-only link whose far end answers 200 with the full body, the
\* call does not fail; the reader yields exactly the requested range (offset
\* bytes discarded, truncated after length bytes), and the body is passed
\* through untouched only when offset = 0 and the effective length is -1.
C5_FullBodySynthesizesRange ==
    \A p \in Readers :
        (UrlCall(p) /\ rd[p].out = "200") =>
            /\ rd[p].res.kind = "reader"
            /\ rd[p].res.lo = rd[p].off
            /\ rd[p].res.hi = WantedEnd(p)
            /\ rd[p].len >= 0 => rd[p].res.hi - rd[p].res.lo = Min(rd[p].len, link.size - rd[p].off)
            /\ rd[p].res.via = "body" <=> (rd[p].off = 0 /\ rd[p].fwd = -1)
            /\ StartsAtOffset(p)
            /\ rd[p].got # <<>> => rd[p].got[1].hi <= WantedEnd(p)
            /\ rd[p].eof => rd[p].got = <<[lo |-> rd[p].off, hi |-> WantedEnd(p)]>>

\* the range [1000, 1000+500) of a 2000 byte file served from a 200 body
C5_Witness ==
    /\ UrlCall(1)
    /\ rd[1].out = "200"
    /\ rd[1].off = 1000
    /\ rd[1].len = 500
    /\ link.size = 2000
    /\ rd[1].res.via = "ranged"
    /\ rd[1].eof
    /\ rd[1].got = <<[lo |-> 1000, hi |-> 1500]>>

\* C6: in the URL branch a response whose status is neither 206 nor 200 makes
\* the call fail with an error; its body is never returned as the reader.
C6_OtherStatusIsError ==
    \A p \in Readers :
        (UrlCall(p) /\ rd[p].out = "204") =>
            /\ rd[p].res.status \notin {StatusOK, StatusPartialContent}
            /\ rd[p].res.kind = "err"

\* the link exposes a seekable stream and no native range reader
SeekableLink ==
    /\ link.state = "ok"
    /\ ~link.caps.rr
    /\ link.caps.rsc

\* C7: on a seekable link every call returns a non-closing wrapper of the one
\* shared handle, no per-call close closes the handle, and once the result
\* link's closers are closed the handle has been closed exactly once.
C7_HandleClosedOnceAtEnd ==
    SeekableLink =>
        /\ \A p \in Readers : rd[p].pc = "open" =>
              /\ rd[p].res.src = "handle"
              /\ rd[p].res.via = "nopcloser"
        /\ link.handleCloses = IF link.closed THEN 1 ELSE 0

\* C8: range reads issued concurrently through one result of Link do not
\* interfere: whatever the interleaving, each reader yields bytes of its own
\* requested range only, from its own offset on.
C8_ConcurrentReadsIndependent ==
    \A p \in Readers : HoldsCiphertext(p) => StartsAtOffset(p)

\* C11: Link returns the capability error, and no range reader is built,
\* exactly when the remote link exposes none of a native range reader, a
\* seekable stream and a URL; on a link that Link returned every adapter call
\* takes the native branch, else the seekable branch, else the URL branch, and
\* never ends in the adapter's final 'not supported'.
C11_CapabilityErrorOrBranch ==
    /\ link.state = "err" =>
          /\ link.err = "capability" <=>
                (link.fail = "none" /\ ~link.caps.rr /\ ~link.caps.rsc /\ ~link.caps.url)
          /\ \A p \in Readers : rd[p].pc = "idle"
    /\ link.state = "ok" =>
          /\ link.caps.rr \/ link.caps.rsc \/ link.caps.url
          /\ \A p \in Readers : rd[p].pc # "idle" =>
                /\ rd[p].res.via # "notsupport"
                /\ rd[p].branch = IF link.caps.rr THEN "native"
                                  ELSE IF link.caps.rsc THEN "seek"
                                  ELSE "url"

\* Link refused a remote link that exposes nothing
C11_Witness ==
    /\ link.state = "err"
    /\ link.err = "capability"
    /\ link.fail = "none"

\* a call on a link that exposes a seekable stream and a URL took the seekable branch
C11_WitnessBranch ==
    /\ link.state = "ok"
    /\ ~link.caps.rr /\ link.caps.rsc /\ link.caps.url
    /\ rd[1].pc = "open"
    /\ rd[1].branch = "seek"

(***************************************************************************)
(* Properties of Get.                                                      *)
(***************************************************************************)
\* the first query of the last Get found no object and a second guess is legitimate
FirstNotFoundAmbiguous ==
    /\ last.op = "Get"
    /\ last.path # Root
    /\ guessPath(last.path)[2]
    /\ ~last.a1.ok
    /\ IsObjectNotFound(last.a1.err)

\* C1: for an ambiguous non-root path whose first-guess query is answered
\* object-not-found, Get returns the object built from the opposite-type
\* query's result when that query succeeds, and the second query's error (not
\* the first's) when that query is answered object-not-found too.
C1_SecondGuessDecides ==
    FirstNotFoundAmbiguous =>
        /\ last.a2.ok =>
              /\ last.ok
              /\ last.remoteObj = last.a2.obj
              /\ last.obj = GetObject(last.path, last.a2.obj)
        /\ (~last.a2.ok /\ IsObjectNotFound(last.a2.err)) =>
              /\ ~last.ok
              /\ last.err = last.a2.err
              /\ last.err # last.a1.err

C1_Witness ==
    /\ FirstNotFoundAmbiguous
    /\ last.a2.ok
    /\ last.ok
    /\ last.obj.name = <<"a">>
    /\ last.obj.size = 1

\* C2: a Get issues at most two remote queries; it issues the second exactly
\* when the first failed with object-not-found and a second guess is
\* legitimate, with the opposite file/directory type; when the first fails
\* otherwise it returns the first error unchanged after exactly one query.
C2_BoundedRetry ==
    (last.op = "Get" /\ last.path # Root) =>
        LET retry == ~last.a1.ok /\ IsObjectNotFound(last.a1.err)
                        /\ guessPath(last.path)[2]
        IN  /\ Len(last.queries) \in {1, 2}
            /\ Len(last.queries) = 2 <=> retry
            /\ Len(last.queries) = 2 =>
                  /\ last.queries[2].isFolder = ~last.queries[1].isFolder
                  /\ last.queries[2].at = getPathForRemote(last.path, ~guessPath(last.path)[1])
            /\ last.queries[1].isFolder = guessPath(last.path)[1]
            /\ (~last.a1.ok /\ ~retry) =>
                  /\ ~last.ok
                  /\ last.err = last.a1.err
                  /\ Len(last.queries) = 1

C2_Witness ==
    /\ FirstNotFoundAmbiguous
    /\ Len(last.queries) = 2
    /\ ~last.a2.ok
    /\ IsObjectNotFound(last.a2.err)
    /\ ~last.ok

\* a Get whose first query failed with an error that is not retried
C2_WitnessNoRetry ==
    /\ last.op = "Get"
    /\ last.path # Root
    /\ guessPath(last.path)[2]
    /\ ~last.a1.ok
    /\ last.a1.err.kind = "permission"
    /\ Len(last.queries) = 1

\* C12: Get of the root path succeeds with the directory object named "Root"
\* of path "/" and issues no remote query, whatever the remote holds and
\* whatever it would answer.
C12_RootWithoutRemote ==
    (last.op = "Get" /\ last.path = Root) =>
        /\ last.ok
        /\ last.err = NoErr
        /\ last.obj.name = <<"R", "o", "o", "t">>
        /\ last.obj.isDir
        /\ last.obj.path = Root
        /\ last.queries = <<>>

\* Get of the root while the remote would answer with a transport failure
C12_Witness ==
    /\ last.op = "Get"
    /\ last.path = Root
    /\ last.a1.err.kind = "transport"
    /\ last.ok

\* Get of the root over an empty remote directory
C12_WitnessEmptyRemote ==
    /\ last.op = "Get"
    /\ last.path = Root
    /\ remote = <<>>
    /\ last.ok

\* C9: an object Get returns for a non-root path carries the decrypted name
\* and, for a file, the decrypted size of the remote object; never the remote
\* object's own name or size in place of a failed decoding.
C9_GetPlaintextOnly ==
    (last.op = "Get" /\ last.ok /\ last.path # Root) =>
        IF last.remoteObj.isDir
        THEN /\ DecryptDirName(last.remoteObj.name).ok
             /\ last.obj.name = DecryptDirName(last.remoteObj.name).name
        ELSE /\ DecryptFileName(last.remoteObj.name).ok
             /\ DecryptedSize(last.remoteObj.size).ok
             /\ last.obj.name = DecryptFileName(last.remoteObj.name).name
             /\ last.obj.size = DecryptedSize(last.remoteObj.size).size

(***************************************************************************)
(* Properties of List.                                                     *)
(***************************************************************************)
\* the remote object decodes: its name, and for a file its size too
Decodable(obj) ==
    IF obj.isDir
    THEN DecryptDirName(obj.name).ok
    ELSE DecryptedSize(obj.size).ok /\ DecryptFileName(obj.name).ok

\* C3: when the remote returns its listing, List succeeds and the result
\* holds, in the remote's order, exactly one entry for each decodable remote
\* object, with the decrypted name and the plaintext size (0 for a
\* directory); undecodable objects are left out.
C3_ListFiltersUndecodable ==
    (last.op = "List" /\ last.listing.ok) =>
        LET objs == last.listing.objs
            keep == {i \in 1..Len(objs) : Decodable(objs[i])}
            rank(i) == Cardinality({j \in keep : j <= i})
        IN  /\ last.ok
            /\ Len(last.res) = Cardinality(keep)
            /\ \A i \in keep :
                  /\ last.res[rank(i)].isDir = objs[i].isDir
                  /\ objs[i].isDir =>
                        /\ last.res[rank(i)].name = DecryptDirName(objs[i].name).name
                        /\ last.res[rank(i)].size = 0
                  /\ ~objs[i].isDir =>
                        /\ last.res[rank(i)].name = DecryptFileName(objs[i].name).name
                        /\ last.res[rank(i)].size = DecryptedSize(objs[i].size).size

\* a listing of two objects of which the first does not decode and the second does
C3_Witness ==
    /\ last.op = "List"
    /\ last.listing.ok
    /\ Len(last.listing.objs) = 2
    /\ ~Decodable(last.listing.objs[1])
    /\ Decodable(last.listing.objs[2])
    /\ Len(last.res) = 1

(***************************************************************************)
(* Properties of Put.                                                      *)
(***************************************************************************)
\* C10: Put hands the remote an object named EncryptFileName(name) of size
\* EncryptedSize(size), and after a successful Put of (name, size), size >= 0,
\* a List of the directory holds a file entry with that name and that size.
C10_PutThenList ==
    /\ (last.op = "Put" /\ last.sent # <<>>) =>
          /\ last.sent[1].name = EncryptFileName(last.name)
          /\ last.sent[1].size = EncryptedSize(last.size)
    /\ (last.op = "List" /\ last.ok) =>
          \A n \in PlainNames :
              stored[n] # NotStored =>
                  \E i \in 1..Len(last.res) :
                      /\ last.res[i].name = n
                      /\ last.res[i].size = stored[n]
                      /\ ~last.res[i].isDir

\* a List after the successful Put of an empty file and of a file of one full block
C10_Witness ==
    /\ last.op = "List"
    /\ last.ok
    /\ stored[<<"a">>] = 0
    /\ stored[<<"b", ".", "a">>] = blockDataSize

(***************************************************************************)
(* Properties of Init.                                                     *)
(***************************************************************************)
\* the suffix pattern ^\.[A-Za-z0-9_-]{2,}$ of the configuration documentation
MatchesSuffixPattern(s) ==
    /\ Len(s) >= 3
    /\ Head(s) = "."
    /\ \A i \in 2..Len(s) : s[i] \in SuffixChars

\* C13: Init returns an error whenever the suffix does not match
\* ^\.[A-Za-z0-9_-]{2,}$, the remote storage cannot be resolved or the cipher
\* cannot be constructed; an Init that returns an error leaves the cipher it
\* found in place, and for a malformed suffix it also leaves the remote
\* storage in place and saves nothing; an Init that returns success has
\* resolved the remote storage and installed the cipher of the configuration
\* it ran with.
C13_InitErrorsInstallNothing ==
    last.op = "Init" =>
        LET malformed == ~MatchesSuffixPattern(last.before.EncryptedSuffix)
        IN  /\ ( \/ malformed
                 \/ last.fail \in {"storage", "cipher"}
                 \/ last.before.FileNameEnc \notin Modes ) => last.err # "none"
            /\ last.err # "none" => d.cipher = last.before.cipher
            /\ malformed =>
                  /\ d.remoteStorage = last.before.remoteStorage
                  /\ ~last.saved
            /\ last.err = "none" =>
                  /\ last.saved
                  /\ d.remoteStorage = [found |-> TRUE, path |-> d.RemotePath]
                  /\ d.cipher.made
                  /\ d.cipher.config.suffix = d.EncryptedSuffix
                  /\ d.cipher.config.filename_encryption = d.FileNameEnc
                  /\ d.cipher.config.directory_name_encryption = d.DirNameEnc
                  /\ d.cipher.config.password = Tail(d.Password)
                  /\ d.cipher.config.password2 = Tail(d.Salt)
                  /\ HasObfuscatedPrefix(d.Password) /\ HasObfuscatedPrefix(d.Salt)

\* an Init on a driver that never had a remote storage fails on a suffix that is
\* too short, with nothing in the environment failing
C13_Witness ==
    /\ last.op = "Init"
    /\ last.err = "suffix"
    /\ last.fail = "none"
    /\ last.before.EncryptedSuffix = <<".", "b">>
    /\ ~last.before.remoteStorage.found
    /\ ~d.remoteStorage.found

\* an Init on a driver that holds a cipher fails to construct the new one
C13_WitnessCipherKept ==
    /\ last.op = "Init"
    /\ last.err = "cipher"
    /\ last.before.cipher.made
    /\ last.before.cipher.config.suffix # last.before.EncryptedSuffix
    /\ d.cipher = last.before.cipher

\* a second Init succeeds and replaces the cipher of the first
C13_WitnessSuccess ==
    /\ last.op = "Init"
    /\ last.err = "none"
    /\ last.before.cipher.made
    /\ d.cipher # last.before.cipher

\* an Init fails because the remote storage is not found
C13_WitnessStorage ==
    /\ last.op = "Init"
    /\ last.err = "storage"
    /\ last.saved
    /\ ~d.remoteStorage.found
(***************************************************************************)
(* Properties of MakeDir, Move, Rename, Copy, Remove.                      *)
(***************************************************************************)
\* the remote path of a logical path under the codec of the given flag
TranslatedPath(path, isDir) ==
    IF path = Root THEN <<>>
    ELSE <<IF isDir THEN EncryptDirName(path.seg) ELSE EncryptFileName(path.seg)>>

\* the one remote call a handler is expected to make
ExpectedCall(op, args) ==
    CASE op = "MakeDir" ->
           [kind |-> "MakeDir",
            src  |-> Append(TranslatedPath(args[1].path, TRUE), EncryptDirName(args[2])),
            dst  |-> <<>>]
      [] op = "Move" ->
           [kind |-> "Move",
            src  |-> TranslatedPath(args[1].path, args[1].isDir),
            dst  |-> TranslatedPath(args[2].path, args[2].isDir)]
      [] op = "Rename" ->
           [kind |-> "Rename",
            src  |-> TranslatedPath(args[1].path, args[1].isDir),
            dst  |-> IF args[1].isDir THEN EncryptDirName(args[2])
                     ELSE EncryptFileName(args[2])]
      [] op = "Copy" ->
           [kind |-> "Copy",
            src  |-> TranslatedPath(args[1].path, args[1].isDir),
            dst  |-> TranslatedPath(args[2].path, args[2].isDir)]
      [] op = "Remove" ->
           [kind |-> "Remove",
            src  |-> TranslatedPath(args[1].path, args[1].isDir),
            dst  |-> <<>>]

\* C14: each of MakeDir, Move, Rename, Copy and Remove makes at most one call
\* on the remote, of its own kind, on paths translated with the object's own
\* directory flag (Rename encrypts the new name as a directory name if and only
\* if the source is a directory); when a path translation fails it returns an
\* error and makes no remote call; otherwise it makes exactly that call and
\* returns the remote's answer, error or not, unchanged.
C14_DelegatesOneTranslatedCall ==
    last.op \in {"MakeDir", "Move", "Rename", "Copy", "Remove"} =>
        /\ Len(last.sent) <= 1
        /\ last.fail # "none" =>
              /\ last.sent = <<>>
              /\ last.err = ErrConvertPath
        /\ last.fail = "none" =>
              /\ last.sent = <<ExpectedCall(last.op, last.args)>>
              /\ last.err = last.answer

\* a file is renamed: the new name goes through the file codec and gets the
\* suffix, and the remote object carries it afterwards
C14_Witness ==
    /\ last.op = "Rename"
    /\ ~last.args[1].isDir
    /\ last.fail = "none"
    /\ last.err = NoErr
    /\ d.DirNameEnc
    /\ d.FileNameEnc = "standard"
    /\ last.sent[1].dst = <<"y", "z", "x", ".", "b", "i", "n">>
    /\ \E i \in 1..Len(remote) : remote[i].name = last.sent[1].dst /\ ~remote[i].isDir

\* a directory is renamed: the new name goes through the directory codec
C14_WitnessDir ==
    /\ last.op = "Rename"
    /\ last.args[1].isDir
    /\ last.fail = "none"
    /\ last.err = NoErr
    /\ d.FileNameEnc = "standard"
    /\ ~d.DirNameEnc
    /\ last.sent[1].dst = <<"a">>

\* the second path translation of Move fails: no remote call
C14_WitnessPathError ==
    /\ last.op = "Move"
    /\ last.fail = "dst"
    /\ last.sent = <<>>
    /\ last.err.kind = "path"

\* the remote's error comes back from Copy as it is
C14_WitnessRemoteError ==
    /\ last.op = "Copy"
    /\ last.sent # <<>>
    /\ last.err.kind = "permission"
    /\ last.err = last.answer

\* MakeDir below a directory and Remove of a missing object
C14_WitnessMakeDir ==
    /\ last.op = "MakeDir"
    /\ last.fail = "none"
    /\ Len(last.sent[1].src) = 2

C14_WitnessRemoveMissing ==
    /\ last.op = "Remove"
    /\ last.err.kind = "notfound"
(***************************************************************************)
(* Further properties of the range-read adapter.                           *)
(***************************************************************************)
\* C15: when the remote link has a native range reader, the closers that came
\* with the remote link have been released exactly once after the result
\* link's closers are closed, whatever the number of adapter calls made before
\* and whether they succeeded or failed.
C15_RemoteClosersReleasedOnce ==
    (link.state = "ok" /\ link.caps.rr /\ link.closed) => link.remoteCloses = 1

\* the result link is closed after no adapter call, after a failed one, after two
C15_NeverReleased ==
    /\ link.state = "ok" /\ link.caps.rr /\ link.closed
    /\ link.calls = 0
    /\ link.remoteCloses = 0

C15_ReleasedTwice ==
    /\ link.state = "ok" /\ link.caps.rr /\ link.closed
    /\ link.calls = 2
    /\ link.remoteCloses = 2

C15_ReleasedOnceAfterOneCall ==
    /\ link.state = "ok" /\ link.caps.rr /\ link.closed
    /\ link.calls = 1
    /\ link.remoteCloses = 1
\* C16: for every adapter call (offset, length) on a remote file of size S that
\* goes to the native range reader or to the URL, the length forwarded is -1
\* when length >= 0 and offset + length >= S, and the requested length
\* otherwise; so a bounded range that is forwarded ends before S, and a
\* requested length of -1 is forwarded as -1.
C16_ForwardedLength ==
    \A p \in Readers :
        (link.state = "ok" /\ rd[p].pc # "idle" /\ rd[p].branch \in {"native", "url"}) =>
            /\ (rd[p].len >= 0 /\ rd[p].off + rd[p].len >= link.size) => rd[p].fwd = -1
            /\ ~(rd[p].len >= 0 /\ rd[p].off + rd[p].len >= link.size) =>
                  rd[p].fwd = rd[p].len
            /\ rd[p].fwd >= 0 => rd[p].off + rd[p].fwd < link.size
            /\ rd[p].len = -1 => rd[p].fwd = -1

\* a bounded range that ends exactly at the end of the file goes out as -1
C16_Witness ==
    \E p \in Readers :
        /\ link.state = "ok" /\ rd[p].pc = "open" /\ rd[p].branch = "native"
        /\ rd[p].len >= 0
        /\ rd[p].off + rd[p].len = link.size
        /\ rd[p].fwd = -1

\* one that goes past the end, through the URL
C16_WitnessPastEnd ==
    \E p \in Readers :
        /\ link.state = "ok" /\ rd[p].pc = "open" /\ rd[p].branch = "url"
        /\ rd[p].len >= 0
        /\ rd[p].off + rd[p].len > link.size
        /\ rd[p].fwd = -1

\* one that ends before the end goes out as it is
C16_WitnessBounded ==
    \E p \in Readers :
        /\ link.state = "ok" /\ rd[p].pc = "open" /\ rd[p].branch = "url"
        /\ rd[p].off > 0
        /\ rd[p].fwd = rd[p].len
        /\ rd[p].fwd > 0
====
